---------------------------- MODULE Spec2Model ----------------------------
(***************************************************************************)
(* A model of rslint-staged (src/src/main.rs): main, which compiles the    *)
(* configuration (RslintStagedConfig::from_json) and opens the repository, *)
(* the staged-file query Repo::staged_files, and the dispatcher            *)
(* RslintStaged::exec, which runs the commands of every configuration item *)
(* over the staged files, the items in parallel (rayon par_iter) and the   *)
(* commands of one item in order.                                          *)
(*                                                                         *)
(* Strings that the program takes apart are sequences: a command string    *)
(* is a sequence of characters (split_ascii_whitespace works on them), a   *)
(* path is a sequence of atoms, "/" being the separator atom and every     *)
(* other atom a run of characters no glob of the model splits.             *)
(*                                                                         *)
(* Line 139 of main.rs (repo.stash_save(stasher, message, flags)) names    *)
(* no value in scope and has no effect on what follows; the model leaves   *)
(* it out.                                                                 *)
(***************************************************************************)
EXTENDS Naturals, Sequences, FiniteSets

VARIABLES
    json,          \* the JSON value get_rslint_staged_config finds
    cwd,           \* cli_options.cwd, which main also makes the repository root
    isGitDir,      \* Repository::open(cwd) finds a repository
    diffOk,        \* libgit2 can compute the HEAD-tree-to-index diff
    config,        \* RslintStaged.config.items: <<[glob_pat, commands]>>
    quiet,         \* cli_options.quiet
    hasHead,       \* the repository has a commit HEAD resolves to
    deltas,        \* the deltas of the HEAD-tree-to-index diff, in order
    pc,            \* where main/exec stands
    result,        \* how exec ended: "none", "Ok", "Err", or the panic
    staged_files,  \* exec's local staged_files
    task,          \* per configuration item, the state of its rayon task
    spawned,       \* every process spawned so far, in spawn order
    child,         \* child[i]: "running", or how spawned[i] has ended
    exitCode       \* the exit code of the process, NoExit while it runs

\* What the run is given; no step of the program changes any of it.
inputs == <<json, cwd, quiet, isGitDir, hasHead, diffOk, deltas>>

vars == <<inputs, config, pc, result, staged_files, task, spawned, child,
          exitCode>>

-----------------------------------------------------------------------------
(* Bounds *)

\* The commands of a configuration, all its items together.
MaxCommands == 3

\* The deltas of a diff.
MaxDeltas == 2

\* The pieces (words and whitespace) a command string is put together from.
MaxPieces == 3

\* The elements of a JSON array, and the members of a JSON object.
MaxElements == 2

-----------------------------------------------------------------------------
(* Sequences *)

Range(s) == {s[i] : i \in 1..Len(s)}

SeqsUpTo(S, n) == UNION {[1..k -> S] : k \in 0..n}

-----------------------------------------------------------------------------
(* Paths and globs *)

None == <<>>

Sep == "/"

RelPaths == {<<"a", ".js">>, <<"b", ".txt">>, <<"src", Sep, "a", ".js">>}

\* The directory the whole run is checked in.
Cwd == <<Sep, "repo">>

\* The directories the path functions are checked in.
Roots == {Cwd, <<Sep, "home", Sep, "src">>}

\* Path::join of a relative path: the base, a separator, the path.
Join(base, path) == base \o <<Sep>> \o path

Star == "*"

Globs == <<  <<Star>>, <<Star, ".js">>  >>

\* GlobMatcher::is_match with globset's default options: the glob is matched
\* against the whole path, and * matches any run of characters, separators
\* included (literal_separator is off).
RECURSIVE GlobMatch(_, _)
GlobMatch(glob, path) ==
    IF glob = <<>> THEN path = <<>>
    ELSE IF Head(glob) = Star
         THEN \E k \in 0..Len(path) :
                 GlobMatch(Tail(glob), SubSeq(path, k + 1, Len(path)))
         ELSE /\ path # <<>>
              /\ Head(path) = Head(glob)
              /\ GlobMatch(Tail(glob), Tail(path))

-----------------------------------------------------------------------------
(* Repo::staged_files *)

\* CollectPaths taking the new side of every delta only.
RECURSIVE CollectNewPaths(_, _)
CollectNewPaths(root, ds) ==
    IF ds = <<>> THEN <<>>
    ELSE LET d == Head(ds)
             new == IF d.new = None THEN <<>> ELSE <<Join(root, d.new)>>
         IN  new \o CollectNewPaths(root, Tail(ds))

\* flat_map(|delta| vec![old_file().path(), new_file().path()])
\*   .filter_map(identity).map(|path| root.join(path))
RECURSIVE CollectPaths(_, _)
CollectPaths(root, ds) ==
    IF ds = <<>> THEN <<>>
    ELSE LET d == Head(ds)
             old == IF d.old = None THEN <<>> ELSE <<Join(root, d.old)>>
             new == IF d.new = None THEN <<>> ELSE <<Join(root, d.new)>>
         IN  old \o new \o CollectPaths(root, Tail(ds))

\* Vec::dedup: removes consecutive repeated elements, keeping the first of
\* each run.
RECURSIVE Dedup(_)
Dedup(s) ==
    IF Len(s) <= 1 THEN s
    ELSE IF s[1] = s[2] THEN Dedup(Tail(s))
         ELSE <<s[1]>> \o Dedup(Tail(s))

StagedFiles(root, ds) == Dedup(CollectPaths(root, ds))

-----------------------------------------------------------------------------
(* Command strings *)

Whitespace == {" ", "\t", "\n", "\f", "\r"}

\* str::split_ascii_whitespace: the maximal runs of non-whitespace
\* characters, in order; `word` is the run being read.
RECURSIVE SplitWords(_, _)
SplitWords(s, word) ==
    LET done == IF word = <<>> THEN <<>> ELSE <<word>>
    IN  IF s = <<>> THEN done
        ELSE IF Head(s) \in Whitespace
             THEN done \o SplitWords(Tail(s), <<>>)
             ELSE SplitWords(Tail(s), Append(word, Head(s)))

\* SplitAsciiWhitespace splitting at spaces only, as split(' ') with the
\* empty pieces dropped.
RECURSIVE SplitAtSpaces(_)
SplitAtSpaces(s) ==
    LET space == SelectSeq([i \in 1..Len(s) |-> i], LAMBDA i : s[i] = " ")
    IN  IF space = <<>> THEN (IF s = <<>> THEN <<>> ELSE <<s>>)
        ELSE (IF space[1] = 1 THEN <<>> ELSE <<SubSeq(s, 1, space[1] - 1)>>)
                 \o SplitAtSpaces(SubSeq(s, space[1] + 1, Len(s)))

SplitAsciiWhitespace(s) == SplitWords(s, <<>>)

CmdFmt == <<"f", "m", "t">>
CmdLintQ == <<"l", "i", "n", "t", " ", "-", "q">>
CmdNope == <<"n", "o", "p", "e">>
CmdBlank == <<" ">>

\* The command strings a configuration of the model draws from.
Commands == {CmdFmt, CmdLintQ, CmdNope, CmdBlank}

\* The executables Command::spawn finds on this machine; spawning any other
\* returns Err.
Installed == {<<"f", "m", "t">>, <<"l", "i", "n", "t">>}

-----------------------------------------------------------------------------
(* Configurations *)

\* RslintStagedConfigItem; path_matcher is the glob compiled, GlobMatch.
ConfigItems(g) ==
    [glob_pat : {Globs[g]}, commands : SeqsUpTo(Commands, MaxCommands)]

RECURSIVE CommandCount(_)
CommandCount(items) ==
    IF items = <<>> THEN 0
    ELSE Len(Head(items).commands) + CommandCount(Tail(items))

\* RslintStagedConfig.items: one item per key of the JSON object, so no glob
\* twice, in the key order of the object.
Configs ==
    {c \in UNION {[1..n -> UNION {ConfigItems(g) : g \in 1..Len(Globs)}] :
                    n \in 0..Len(Globs)} :
        /\ CommandCount(c) <= MaxCommands
        /\ \A i, j \in 1..Len(c) :
              i < j => \E g, h \in 1..Len(Globs) :
                          /\ g < h
                          /\ c[i].glob_pat = Globs[g]
                          /\ c[j].glob_pat = Globs[h]}

Rules == 1..Len(config)

-----------------------------------------------------------------------------
(* The configuration as JSON, and RslintStagedConfig::from_json *)

\* serde_json::Value: a number, a string, an array, an object; an object is
\* the sequence of its members in the order into_iter yields them.
JNumber == [kind |-> "number"]

JString(s) == [kind |-> "string", s |-> s]

JArray(items) == [kind |-> "array", items |-> items]

JObject(members) == [kind |-> "object", members |-> members]

Member(key, value) == [key |-> key, value |-> value]

\* No "lint-staged" key in package.json and no readable .lintstagedrc.json:
\* read_to_string(..).unwrap() panics.
NoConfig == [kind |-> "nofile"]

\* Glob::new returns Err on a pattern it cannot parse; the model's one such
\* pattern has a character class that is never closed.
OpenClass == "["

GlobParses(glob_pat) == OpenClass \notin Range(glob_pat)

\* serde_json::from_value::<Vec<String>>(commands) is Ok.
AllStrings(items) == \A i \in 1..Len(items) : items[i].kind = "string"

\* The arms of `match commands` that return: a string, an array of strings.
ValueCompiles(value) ==
    \/ value.kind = "string"
    \/ value.kind = "array" /\ AllStrings(value.items)

\* vec![command] for a string, the strings of an array.
CommandsOf(value) ==
    IF value.kind = "string" THEN <<value.s>>
    ELSE [i \in 1..Len(value.items) |-> value.items[i].s]

\* from_json panics: panic!("Unvalid config") on a value that is no object,
\* Glob::new(..).unwrap() on a key that is no glob, from_value(..).unwrap()
\* on an array with an element that is no string, unreachable!() on any
\* other value.
FromJsonPanics(j) ==
    \/ j.kind # "object"
    \/ \E i \in 1..Len(j.members) :
          \/ ~GlobParses(j.members[i].key)
          \/ ~ValueCompiles(j.members[i].value)

\* The items from_json collects, one per member, in the members' order.
FromJson(j) ==
    [i \in 1..Len(j.members) |->
        [glob_pat |-> j.members[i].key,
         commands |-> CommandsOf(j.members[i].value)]]

\* get_rslint_staged_config panics: no configuration to read, or from_json
\* panics on what it read.
ConfigPanics(j) == j.kind = "nofile" \/ FromJsonPanics(j)

\* A configuration as its author writes it: a single command as a string,
\* any other list of commands as an array.
ItemValue(commands) ==
    IF Len(commands) = 1 THEN JString(commands[1])
    ELSE JArray([i \in 1..Len(commands) |-> JString(commands[i])])

ToJson(c) ==
    JObject([i \in 1..Len(c) |-> Member(c[i].glob_pat, ItemValue(c[i].commands))])

\* Values from_json does not compile: no file, no object, a number for the
\* commands, a key that is no glob, an array holding a number.
MalformedJsons ==
    { NoConfig,
      JNumber,
      JObject(<<Member(<<Star>>, JNumber)>>),
      JObject(<<Member(<<OpenClass>>, JString(CmdFmt))>>),
      JObject(<<Member(<<Star>>, JArray(<<JString(CmdFmt), JNumber>>))>>) }

\* The configurations the whole run is checked on.
RunJsons == {ToJson(c) : c \in Configs} \cup MalformedJsons

-----------------------------------------------------------------------------
(* The diff *)

Delta(old, new) == [old |-> old, new |-> new]

\* A delta has at least one side.
AllDeltas ==
    {d \in [old : RelPaths \cup {None}, new : RelPaths \cup {None}] :
        d.old # None \/ d.new # None}

\* The diffs the whole run is checked on: nothing staged; a.js modified and
\* b.txt added.
RunDeltas ==
    { <<>>,
      << Delta(<<"a", ".js">>, <<"a", ".js">>), Delta(None, <<"b", ".txt">>) >> }

-----------------------------------------------------------------------------
(* RslintStaged::exec *)

\* exitCode while the process runs; "0" and "101" once it has ended.
NoExit == "running"

\* What a child process ends with: status 0, or a status other than 0.
ExitStatuses == {"success", "failure"}

Final == {"done", "panicked", "skipped"}

\* EmptyIsFatal of a check that panics in strict mode whatever is staged.
StrictIsFatal(files, q) == ~q

\* EmptyIsFatal without its panic.
EmptyNeverFatal(files, q) == FALSE

\* if staged_files.is_empty() { if !quiet { panic!(..) } }
EmptyIsFatal(files, q) == files = <<>> /\ ~q

\* Filterd of tasks that share the list and consume it: the first command
\* spawned takes the accepted paths, the later ones find none.
FilterdConsumed(item, files) ==
    IF spawned = <<>>
    THEN SelectSeq(files, LAMBDA path : GlobMatch(item.glob_pat, path))
    ELSE <<>>

\* Filterd falling back to every staged file when the glob accepts none.
FilterdOrAll(item, files) ==
    LET accepted == SelectSeq(files, LAMBDA path : GlobMatch(item.glob_pat, path))
    IN  IF accepted = <<>> THEN files ELSE accepted

\* Filterd without its filter.
FilterdUnfiltered(item, files) == files

\* staged_files.iter().filter(|path| path_matcher.is_match(path))
Filterd(item, files) ==
    SelectSeq(files, LAMBDA path : GlobMatch(item.glob_pat, path))

\* NthCommand iterating from the last command to the first.
NthCommandReversed(item, k) == item.commands[Len(item.commands) - k + 1]

\* config_item.commands.iter(): the k-th command the closure is called on.
NthCommand(item, k) == item.commands[k]

\* Command::new(parsed[0]).args(&parsed[1..]).args(&filterd)
Argv(parsed, filterd) == <<parsed[1]>> \o Tail(parsed) \o filterd

\* RuleRunnable of a dispatcher that stops at the first child that failed.
RuleRunnableUntilFailure(r) ==
    /\ pc = "dispatch"
    /\ task[r].st \in {"pending", "running"}
    /\ \A i \in 1..Len(child) : child[i] # "failure"

\* The closure of for_each runs on a configuration item whatever the other
\* items' commands and children have done.
RuleRunnable(r) ==
    /\ pc = "dispatch"
    /\ task[r].st \in {"pending", "running"}

\* The state main starts in: a repository has a HEAD only if it is one, and
\* a diff against HEAD's tree only if it has a HEAD.
Start(jsons, cwds, diffs) ==
    /\ json \in jsons
    /\ cwd \in cwds
    /\ quiet \in BOOLEAN
    /\ isGitDir \in BOOLEAN
    /\ hasHead \in {b \in BOOLEAN : b => isGitDir}
    /\ diffOk \in {b \in BOOLEAN : b => hasHead}
    /\ deltas \in diffs
    /\ config = <<>>
    /\ pc = "main"
    /\ result = "none"
    /\ staged_files = <<>>
    /\ task = <<>>
    /\ spawned = <<>>
    /\ child = <<>>
    /\ exitCode = NoExit

Init == Start(RunJsons, {Cwd}, RunDeltas)

\* Line 197: let config = get_rslint_staged_config(&cwd); a panic of the
\* main thread ends the process with 101.  The tasks of the items wait,
\* pending, for par_iter.
LoadConfig ==
    /\ pc = "main"
    /\ IF ConfigPanics(json)
       THEN /\ pc' = "panicked"
            /\ result' = "PanicConfig"
            /\ exitCode' = "101"
            /\ UNCHANGED <<config, task>>
       ELSE /\ config' = FromJson(json)
            /\ task' = [r \in 1..Len(json.members) |->
                            [st |-> "pending", next |-> 1]]
            /\ pc' = "open"
            /\ UNCHANGED <<result, exitCode>>
    /\ UNCHANGED <<inputs, staged_files, spawned, child>>

\* RepoOpens of a Repository::open that cannot fail.
RepoAlwaysOpens(found) == TRUE

\* Repository::open(cwd) is Ok.
RepoOpens(found) == found

\* Lines 198-201: Repository::open(cwd).expect("Not a git dir").
OpenRepo ==
    /\ pc = "open"
    /\ IF RepoOpens(isGitDir)
       THEN /\ pc' = "exec"
            /\ UNCHANGED <<result, exitCode>>
       ELSE /\ pc' = "panicked"
            /\ result' = "PanicNotGitDir"
            /\ exitCode' = "101"
    /\ UNCHANGED <<inputs, config, staged_files, task, spawned, child>>

\* Lines 137-150: revwalk.push_head()? returns Err out of exec when HEAD does
\* not resolve; main drops exec's result and returns.
ExecRevwalk ==
    /\ pc = "exec"
    /\ IF hasHead
       THEN /\ pc' = "staged"
            /\ UNCHANGED <<result, exitCode>>
       ELSE /\ pc' = "returned"
            /\ result' = "Err"
            /\ exitCode' = "0"
    /\ UNCHANGED <<inputs, config, staged_files, task,
                   spawned, child>>

\* Line 157: let staged_files = self.repo.staged_files(); the unwrap() of
\* peel_to_tree and of diff_tree_to_index (lines 107-110) panic when libgit2
\* cannot compute the diff.
CallStagedFiles ==
    /\ pc = "staged"
    /\ IF diffOk
       THEN /\ staged_files' = StagedFiles(cwd, deltas)
            /\ pc' = "check"
            /\ UNCHANGED <<result, exitCode>>
       ELSE /\ pc' = "panicked"
            /\ result' = "PanicStagedFiles"
            /\ exitCode' = "101"
            /\ UNCHANGED staged_files
    /\ UNCHANGED <<inputs, config, task, spawned, child>>

\* Lines 159-163, run with the quiet flag q; a panic of the main thread ends
\* the process with 101.
CheckEmptyUnder(q) ==
    /\ pc = "check"
    /\ IF EmptyIsFatal(staged_files, q)
       THEN /\ pc' = "panicked"
            /\ result' = "PanicEmptyStaged"
            /\ exitCode' = "101"
       ELSE /\ pc' = "dispatch"
            /\ UNCHANGED <<result, exitCode>>
    /\ UNCHANGED <<inputs, config, staged_files, task,
                   spawned, child>>

CheckEmpty == CheckEmptyUnder(quiet)

\* Lines 173-184, one call of the inner closure: split the command, spawn
\* it; parsed[0] of a command with no word and unwrap() of a failed spawn
\* panic, which ends the item's task.
RunCommand(r) ==
    /\ RuleRunnable(r)
    /\ task[r].next <= Len(config[r].commands)
    /\ LET item == config[r]
           filterd == Filterd(item, staged_files)
           command == NthCommand(item, task[r].next)
           parsed == SplitAsciiWhitespace(command)
       IN  IF parsed = <<>> \/ parsed[1] \notin Installed
           THEN /\ task' = [task EXCEPT ![r].st = "panicked"]
                /\ UNCHANGED <<spawned, child>>
           ELSE /\ spawned' = Append(spawned,
                        [rule |-> r, command |-> command,
                         argv |-> Argv(parsed, filterd), cwd |-> cwd])
                /\ child' = Append(child, "running")
                /\ task' = [task EXCEPT ![r].st = "running",
                                        ![r].next = @ + 1]
    /\ UNCHANGED <<inputs, config, pc, result, staged_files,
                   exitCode>>

\* The outer closure returns once the item's commands are through.
FinishRule(r) ==
    /\ RuleRunnable(r)
    /\ task[r].next > Len(config[r].commands)
    /\ task' = [task EXCEPT ![r].st = "done"]
    /\ UNCHANGED <<inputs, config, pc, result, staged_files,
                   spawned, child, exitCode>>

\* rayon gives no promise for the items not yet started once a closure has
\* panicked: the unwinding may drop them.
SkipRule(r) ==
    /\ pc = "dispatch"
    /\ task[r].st = "pending"
    /\ \E p \in Rules : task[p].st = "panicked"
    /\ task' = [task EXCEPT ![r].st = "skipped"]
    /\ UNCHANGED <<inputs, config, pc, result, staged_files,
                   spawned, child, exitCode>>

\* for_each returns when every task is through, and resumes the panic of a
\* task in the caller; otherwise exec returns Ok(()) (line 186) and main
\* returns (line 208), whatever the children did and do.
ExecJoin ==
    /\ pc = "dispatch"
    /\ \A r \in Rules : task[r].st \in Final
    /\ IF \E r \in Rules : task[r].st = "panicked"
       THEN /\ pc' = "panicked"
            /\ result' = "PanicInTask"
            /\ exitCode' = "101"
       ELSE /\ pc' = "returned"
            /\ result' = "Ok"
            /\ exitCode' = "0"
    /\ UNCHANGED <<inputs, config, staged_files, task,
                   spawned, child>>

\* A child process ends, with a status of its own choosing; nothing in the
\* program waits for it.
ChildExit(i, status) ==
    /\ child[i] = "running"
    /\ child' = [child EXCEPT ![i] = status]
    /\ UNCHANGED <<inputs, config, pc, result, staged_files,
                   task, spawned, exitCode>>

Next ==
    \/ LoadConfig
    \/ OpenRepo
    \/ ExecRevwalk
    \/ CallStagedFiles
    \/ CheckEmpty
    \/ \E r \in Rules : RunCommand(r)
    \/ \E r \in Rules : FinishRule(r)
    \/ \E r \in Rules : SkipRule(r)
    \/ ExecJoin
    \/ \E i \in 1..Len(child) : \E status \in ExitStatuses : ChildExit(i, status)

Spec == Init /\ [][Next]_vars

\* The steps of the main thread and of the pool's threads, which run
\* whenever they can; children end when they please.
ProgramStep ==
    \/ LoadConfig
    \/ OpenRepo
    \/ ExecRevwalk
    \/ CallStagedFiles
    \/ CheckEmpty
    \/ \E r \in Rules : RunCommand(r)
    \/ \E r \in Rules : FinishRule(r)
    \/ ExecJoin

\* The runs with a configuration that compiles and files staged, in strict
\* mode, in a repository with a commit and a diff: those that get to dispatch
\* with something to dispatch.
InitDispatching ==
    Init /\ ~ConfigPanics(json) /\ diffOk /\ ~quiet /\ deltas # <<>>

FairSpec == InitDispatching /\ [][Next]_vars /\ WF_vars(ProgramStep)

-----------------------------------------------------------------------------
(* Repo::staged_files on every diff of up to MaxDeltas deltas *)

InitStaged ==
    /\ json = JObject(<<>>)
    /\ cwd \in Roots
    /\ isGitDir = TRUE
    /\ diffOk = TRUE
    /\ config = <<>>
    /\ quiet \in BOOLEAN
    /\ hasHead = TRUE
    /\ deltas \in SeqsUpTo(AllDeltas, MaxDeltas)
    /\ pc = "staged"
    /\ result = "none"
    /\ staged_files = <<>>
    /\ task = <<>>
    /\ spawned = <<>>
    /\ child = <<>>
    /\ exitCode = NoExit

NextStaged == CallStagedFiles

SpecStaged == InitStaged /\ [][NextStaged]_vars

-----------------------------------------------------------------------------
(* The run under a configuration of one item: every glob of MatchGlobs,    *)
(* one command that is any string of up to MaxPieces pieces or two of the  *)
(* commands of Commands, in every directory of Roots                       *)

\* The globs of Globs, and one with a directory in front: src/*.js.
MatchGlobs == {<<Star>>, <<Star, ".js">>, <<"src", Sep, Star, ".js">>}

Pieces == {<<"f", "m", "t">>, <<"-", "q">>, <<" ">>, <<"\t">>}

RECURSIVE Concat(_)
Concat(ss) == IF ss = <<>> THEN <<>> ELSE Head(ss) \o Concat(Tail(ss))

CommandStrings == {Concat(ps) : ps \in SeqsUpTo(Pieces, MaxPieces)}

ItemConfigs ==
    {<<[glob_pat |-> g, commands |-> cs]>> :
        g \in MatchGlobs, cs \in [1..1 -> CommandStrings] \cup [1..2 -> Commands]}

\* One path added, for each path; all of them added.
ItemDeltas ==
    {<<Delta(None, path)>> : path \in RelPaths}
        \cup {<< Delta(None, <<"a", ".js">>), Delta(None, <<"b", ".txt">>),
                 Delta(None, <<"src", Sep, "a", ".js">>) >>}

InitItem ==
    /\ Start({ToJson(c) : c \in ItemConfigs}, Roots, ItemDeltas)
    /\ diffOk

\* With one item no task is left pending when one panics.
NextItem ==
    \/ LoadConfig
    \/ OpenRepo
    \/ ExecRevwalk
    \/ CallStagedFiles
    \/ CheckEmpty
    \/ \E r \in Rules : RunCommand(r)
    \/ \E r \in Rules : FinishRule(r)
    \/ ExecJoin
    \/ \E i \in 1..Len(child) : \E status \in ExitStatuses : ChildExit(i, status)

SpecItem == InitItem /\ [][NextItem]_vars

-----------------------------------------------------------------------------
(* get_rslint_staged_config on every JSON value of up to MaxElements       *)
(* members, with arrays of up to MaxElements elements                      *)

JsonElements == {JString(CmdFmt), JString(CmdLintQ), JNumber}

\* What a member may hold for its commands: a number, an object, a string,
\* an array of strings and numbers.
JsonCommandValues ==
    {JNumber, JObject(<<>>), JString(CmdFmt), JString(CmdBlank)}
        \cup {JArray(items) : items \in SeqsUpTo(JsonElements, MaxElements)}

\* The keys, in the order the object yields them.
JsonKeys == <<  <<Star>>, <<Star, ".js">>, <<OpenClass>>  >>

JsonMembers ==
    {Member(JsonKeys[k], value) : k \in 1..Len(JsonKeys), value \in JsonCommandValues}

\* An object has no key twice.
JsonObjects ==
    {JObject(members) : members \in
        {ms \in SeqsUpTo(JsonMembers, MaxElements) :
            \A i, j \in 1..Len(ms) :
                i < j => \E k, l \in 1..Len(JsonKeys) :
                            /\ k < l
                            /\ ms[i].key = JsonKeys[k]
                            /\ ms[j].key = JsonKeys[l]}}

JsonValues ==
    JsonObjects \cup {NoConfig, JNumber, JString(CmdFmt), JArray(<<>>)}

InitConfig ==
    /\ Start(JsonValues, {Cwd}, {<<>>})
    /\ diffOk
    /\ ~quiet

NextConfig == LoadConfig

SpecConfig == InitConfig /\ [][NextConfig]_vars

-----------------------------------------------------------------------------
(* Vocabulary of the properties *)

Terminal == pc \in {"returned", "panicked"}

\* staged_files holds what Repo::staged_files returned.
StagedKnown ==
    \/ pc \in {"check", "dispatch"}
    \/ Terminal /\ result \in {"Ok", "PanicEmptyStaged", "PanicInTask"}

NoDuplicates(s) == \A i, j \in 1..Len(s) : i < j => s[i] # s[j]

\* The elements of s, each at its first occurrence only.
RECURSIVE FirstSeen(_)
FirstSeen(s) ==
    IF s = <<>> THEN <<>>
    ELSE LET front == FirstSeen(SubSeq(s, 1, Len(s) - 1))
             last == s[Len(s)]
         IN  IF last \in Range(front) THEN front ELSE Append(front, last)

\* The spawn log's entries of item r, in spawn order.
SpawnsOf(r) == SelectSeq(spawned, LAMBDA e : e.rule = r)

Words(command) == SplitAsciiWhitespace(command)

Startable(command) ==
    Words(command) # <<>> /\ Words(command)[1] \in Installed

AllStartable ==
    \A r \in Rules : \A k \in 1..Len(config[r].commands) :
        Startable(config[r].commands[k])

AllSpawned ==
    \A r \in Rules : Len(SpawnsOf(r)) = Len(config[r].commands)

-----------------------------------------------------------------------------
(* Properties *)

\* C1: the list Repo::staged_files returns holds no path twice, also when
\* the two occurrences are not adjacent in the collected sequence, and keeps
\* the paths in first-occurrence order.
C1_StagedFilesHasNoDuplicates ==
    StagedKnown =>
        /\ NoDuplicates(staged_files)
        /\ staged_files = FirstSeen(CollectPaths(cwd, deltas))

\* C2: when exec has returned, no child process it spawned is still running.
C2_ReturnAfterAllChildrenEnded ==
    pc = "returned" => \A i \in 1..Len(child) : child[i] # "running"

\* C3: when a command of an item is spawned, the children of the item's
\* earlier commands have all ended.
C3_CommandSpawnedAfterPreviousEnded ==
    [][\A r \in Rules :
         (/\ Len(spawned') = Len(spawned) + 1
          /\ spawned'[Len(spawned')].rule = r)
         => \A i \in 1..Len(spawned) :
               spawned[i].rule = r => child[i] # "running"]_vars

\* C4: the processes spawned for one item are those of its commands in the
\* order the configuration declares them (the k-th spawn of the item is its
\* k-th command), whatever the interleaving of the items' tasks.
C4_SpawnOrderWithinRule ==
    \A r \in Rules :
        /\ Len(SpawnsOf(r)) <= Len(config[r].commands)
        /\ \A k \in 1..Len(SpawnsOf(r)) :
              SpawnsOf(r)[k].command = config[r].commands[k]

\* C4, its case: the spawns of two items interleave, the later item's first
\* spawn before the earlier item's, whose spawn is before the later item's
\* second: between items both orders happen.
C4_RulesInterleave ==
    /\ Len(spawned) = 3
    /\ spawned[1].rule = 2
    /\ spawned[2].rule = 1
    /\ spawned[3].rule = 2
    /\ spawned[1].command # spawned[3].command

\* C5: the process ends with a non-zero exit code when a dispatched command
\* has ended with a non-zero status.
C5_ChildFailureMakesExitNonZero ==
    [][(/\ exitCode = NoExit
        /\ exitCode' # NoExit
        /\ \E i \in 1..Len(child) : child[i] = "failure")
       => exitCode' # "0"]_vars

\* Item r's task ended on a command that has an executable which could not
\* be started.
SpawnFailed(r) ==
    /\ task[r].st = "panicked"
    /\ LET command == config[r].commands[task[r].next]
       IN  Words(command) # <<>> /\ Words(command)[1] \notin Installed

\* C6: a command that fails to start does not end the run abnormally, and
\* every other command that can start, of the same item and of the others,
\* is still spawned.
C6_SpawnFailureIsNotFatal ==
    (Terminal /\ \E r \in Rules : SpawnFailed(r)) =>
        /\ pc = "returned"
        /\ \A r \in Rules : \A k \in 1..Len(config[r].commands) :
              Startable(config[r].commands[k]) =>
                  \E i \in 1..Len(spawned) :
                      /\ spawned[i].rule = r
                      /\ spawned[i].command = config[r].commands[k]

\* C7: with commands that all start, every command of every item is
\* eventually spawned once dispatch has begun, whatever status the children
\* end with: a child ending with a non-zero status stops no other command.
C7_ChildFailureStopsNoSpawn ==
    []((pc = "dispatch" /\ AllStartable) => <>AllSpawned)

\* C7, its case: two items, a child has ended with a non-zero status, and a
\* command of each item is still to be spawned.
C7_FailureBeforeLaterSpawns ==
    /\ pc = "dispatch"
    /\ AllStartable
    /\ Len(config) = 2
    /\ \E i \in 1..Len(child) : child[i] = "failure"
    /\ \A r \in Rules : Len(SpawnsOf(r)) < Len(config[r].commands)

\* C8: with an empty staged-file list and quiet mode on, the run ends
\* successfully and no process is ever spawned.
C8_QuietEmptySpawnsNothing ==
    (StagedKnown /\ staged_files = <<>> /\ quiet) =>
        /\ spawned = <<>>
        /\ pc # "panicked"

\* C9: with an empty staged-file list and quiet mode off, exec panics at
\* its check of the list (the run never gets to dispatch and never returns
\* normally), the process ends with the panic's exit code, and no process
\* is spawned at any point.
C9_EmptyStagedIsFatal ==
    (StagedKnown /\ staged_files = <<>> /\ ~quiet) =>
        /\ spawned = <<>>
        /\ pc \in {"check", "panicked"}
        /\ pc = "panicked" => (result = "PanicEmptyStaged" /\ exitCode = "101")

\* C9, its case: the run has ended in that panic, with a configuration whose
\* first command could have been spawned.
C9_EmptyStagedPanicked ==
    /\ pc = "panicked"
    /\ StagedKnown /\ staged_files = <<>> /\ ~quiet
    /\ config # <<>>
    /\ config[1].commands # <<>>
    /\ Startable(config[1].commands[1])

\* The staged paths, in staged-list order, that item r's glob accepts.
Accepted(r) ==
    SelectSeq(staged_files, LAMBDA path : GlobMatch(config[r].glob_pat, path))

\* C10: every spawned process has the working directory cwd and the argument
\* vector executable, static arguments, accepted staged paths: the words of
\* its command in order, then exactly the staged paths its item's glob
\* accepts, in staged-list order; no item has more processes than commands,
\* and when exec returns Ok every command of every item has exactly one.
C10_InvocationArguments ==
    /\ \A i \in 1..Len(spawned) :
          LET e == spawned[i]
              words == Words(e.command)
              n == Len(words)
              paths == Accepted(e.rule)
          IN  /\ e.cwd = cwd
              /\ n >= 1
              /\ Len(e.argv) = n + Len(paths)
              /\ \A k \in 1..n : e.argv[k] = words[k]
              /\ \A k \in 1..Len(paths) : e.argv[n + k] = paths[k]
              /\ \A path \in Range(staged_files) \ Range(paths) :
                    path \notin Range(e.argv)
    /\ \A r \in Rules : Len(SpawnsOf(r)) <= Len(config[r].commands)
    /\ (pc = "returned" /\ result = "Ok") => AllSpawned

\* C10, its case: exec has returned Ok; a.js went to the commands of both
\* items, whose globs both accept it, and b.txt to those of the first only;
\* a command has a static argument.
C10_PathUnderBothRules ==
    LET a == Join(Cwd, <<"a", ".js">>)
        b == Join(Cwd, <<"b", ".txt">>)
    IN  /\ pc = "returned" /\ result = "Ok"
        /\ Len(config) = 2
        /\ Len(spawned) = 3
        /\ \A i \in 1..Len(spawned) : a \in Range(spawned[i].argv)
        /\ \A i \in 1..Len(spawned) :
              b \in Range(spawned[i].argv) <=> spawned[i].rule = 1
        /\ \E i \in 1..Len(spawned) : spawned[i].command = CmdLintQ

\* The staged-file query is called and fails.
StagedQueryFails == ~ConfigPanics(json) /\ hasHead /\ ~diffOk

\* C11: when loading or compiling the configuration, opening the repository
\* or the staged-file query fails, the run ends in a panic of the main
\* thread, with a non-zero exit code and no process spawned; and whenever a
\* process has been spawned, the configuration has been compiled, the
\* repository opened and staged_files has returned.
C11_FailuresAreFatalBeforeSpawn ==
    /\ (Terminal /\ (ConfigPanics(json) \/ ~isGitDir \/ StagedQueryFails)) =>
          /\ pc = "panicked"
          /\ exitCode = "101"
          /\ result \in {"PanicConfig", "PanicNotGitDir", "PanicStagedFiles"}
    /\ (ConfigPanics(json) \/ ~isGitDir \/ StagedQueryFails) => spawned = <<>>
    /\ spawned # <<>> =>
          /\ config = FromJson(json)
          /\ isGitDir
          /\ StagedKnown
          /\ staged_files = StagedFiles(cwd, deltas)

\* C11, its case: the staged-file query has failed, in a repository that
\* opened, under a configuration whose first command could have been
\* spawned.
C11_StagedQueryPanicked ==
    /\ pc = "panicked"
    /\ result = "PanicStagedFiles"
    /\ isGitDir
    /\ config # <<>>
    /\ config[1].commands # <<>>
    /\ Startable(config[1].commands[1])

\* The paths of the diff, relative to the repository root as libgit2 gives
\* them.
DeltaPaths ==
    ({deltas[i].old : i \in 1..Len(deltas)} \cup
     {deltas[i].new : i \in 1..Len(deltas)}) \ {None}

\* C12: a staged path is among the path arguments of an item's process
\* exactly when the path relative to the repository root matches the item's
\* glob (src/a.js matches src/*.js), whatever directory the root is.
C12_MatchIsRelativeToRoot ==
    \A i \in 1..Len(spawned) : \A path \in DeltaPaths :
        Join(cwd, path) \in Range(spawned[i].argv)
            <=> GlobMatch(config[spawned[i].rule].glob_pat, path)

\* C13: in a repository with no commit, where HEAD does not resolve and the
\* deltas are those of the index against the empty tree, the run gets to
\* dispatch with every path of the index staged: it has not ended before
\* staged_files returned, neither abnormally nor by returning silently.
C13_NoCommitDispatchesIndex ==
    (Terminal /\ ~ConfigPanics(json) /\ isGitDir /\ ~hasHead) =>
        /\ StagedKnown
        /\ Range(staged_files) = {Join(cwd, path) : path \in DeltaPaths}
        /\ (deltas # <<>> /\ AllStartable) => (result = "Ok" /\ AllSpawned)

\* C14: when files are staged and an item's glob accepts none of them, the
\* item's commands are spawned all the same, in order and at most once each,
\* with the words of the command and no path after them; when exec returns
\* Ok each of them has been spawned exactly once.
C14_NoMatchStillSpawned ==
    \A r \in Rules :
        (StagedKnown /\ staged_files # <<>> /\ Accepted(r) = <<>>) =>
            /\ Len(SpawnsOf(r)) <= Len(config[r].commands)
            /\ \A k \in 1..Len(SpawnsOf(r)) :
                  /\ SpawnsOf(r)[k].command = config[r].commands[k]
                  /\ SpawnsOf(r)[k].argv = Words(config[r].commands[k])
            /\ (pc = "returned" /\ result = "Ok") =>
                  Len(SpawnsOf(r)) = Len(config[r].commands)

\* C14, its case: b.txt is staged, the item's glob *.js accepts nothing, and
\* exec has returned Ok with both commands of the item spawned, one of them
\* with a static argument.
C14_BothCommandsWithoutPaths ==
    /\ pc = "returned" /\ result = "Ok"
    /\ staged_files = <<Join(cwd, <<"b", ".txt">>)>>
    /\ config = <<[glob_pat |-> <<Star, ".js">>, commands |-> <<CmdFmt, CmdLintQ>>]>>
    /\ Len(spawned) = 2
    /\ spawned[2].argv = << <<"l", "i", "n", "t">>, <<"-", "q">> >>

\* C15: get_rslint_staged_config ends with a ConfigError value, and not with
\* a panic, on a JSON value that is no object, on a key that is no glob and
\* on commands that are neither a string nor an array of strings; and a
\* member whose commands are one string compiles to an item of exactly that
\* one command.
C15_MalformedConfigIsAnError ==
    pc # "main" =>
        /\ (json.kind # "nofile" /\ FromJsonPanics(json)) =>
              (pc # "panicked" /\ result = "ConfigError")
        /\ ~ConfigPanics(json) =>
              \A i \in 1..Len(json.members) :
                  json.members[i].value.kind = "string" =>
                      config[i].commands = <<json.members[i].value.s>>

\* C16: the paths staged_files returns are, as a set, the root joined with
\* the old and the new path of every delta of the HEAD-tree-to-index diff, a
\* delta without one side giving the other side only, and nothing else; the
\* list is empty exactly when the diff has no delta.
C16_StagedFilesAreTheDeltaPaths ==
    StagedKnown =>
        /\ Range(staged_files) =
              {Join(cwd, deltas[i].old) : i \in {j \in 1..Len(deltas) : deltas[j].old # None}}
                  \cup
              {Join(cwd, deltas[i].new) : i \in {j \in 1..Len(deltas) : deltas[j].new # None}}
        /\ staged_files = <<>> <=> deltas = <<>>

\* C16, its case: a deletion of a.js and a rename of b.txt to src/a.js; the
\* three paths are staged, each under the root.
C16_DeletionAndRename ==
    /\ pc = "check"
    /\ deltas = << Delta(<<"a", ".js">>, None),
                   Delta(<<"b", ".txt">>, <<"src", Sep, "a", ".js">>) >>
    /\ staged_files = << Join(cwd, <<"a", ".js">>), Join(cwd, <<"b", ".txt">>),
                         Join(cwd, <<"src", Sep, "a", ".js">>) >>
    /\ cwd # Cwd

\* The steps of the program run with the quiet flag q: the flag is read at
\* the check of the staged-file list and nowhere else.
NextUnder(q) ==
    \/ LoadConfig
    \/ OpenRepo
    \/ ExecRevwalk
    \/ CallStagedFiles
    \/ CheckEmptyUnder(q)
    \/ \E r \in Rules : RunCommand(r)
    \/ \E r \in Rules : FinishRule(r)
    \/ \E r \in Rules : SkipRule(r)
    \/ ExecJoin
    \/ \E i \in 1..Len(child) : \E status \in ExitStatuses : ChildExit(i, status)

\* C17: in a run whose diff has deltas, so that the staged-file list is not
\* empty, every step is also a step of the run with the quiet flag the other
\* way round: the two runs, which start alike but for the flag, spawn the
\* same processes and end with the same result and exit code.
C17_QuietOnlyMattersWhenEmpty ==
    [][deltas # <<>> => NextUnder(~quiet)]_vars

\* C17, its case: a quiet run with files staged has gone through the check
\* of the list, spawned the three commands of two items and returned Ok.
C17_QuietRunDispatched ==
    /\ quiet
    /\ staged_files # <<>>
    /\ pc = "returned" /\ result = "Ok"
    /\ Len(config) = 2
    /\ Len(spawned) = 3

\* What a spawned process is but for the task that spawned it: executable
\* and arguments, working directory.
Invocation(e) == [argv |-> e.argv, cwd |-> e.cwd]

\* The commands of the configuration: item r, its k-th command.
CommandSlots ==
    {slot \in Rules \X (1..MaxCommands) : slot[2] <= Len(config[slot[1]].commands)}

\* The invocation the configuration and the staged-file list give a command.
Expected(slot) ==
    [argv |-> Words(config[slot[1]].commands[slot[2]]) \o Accepted(slot[1]),
     cwd |-> cwd]

\* C18: when every command starts and exec returns, the processes spawned
\* are, as a multiset of invocations (executable, static arguments, path
\* arguments, working directory), those the configuration and the staged-file
\* list give, each as often as they give it, whatever order the items' tasks
\* interleaved in; and no step of the dispatch changes the configuration or
\* the staged-file list the tasks share.
C18_InvocationsWhateverInterleaving ==
    /\ []((pc = "returned" /\ result = "Ok") =>
            \A x \in {Invocation(spawned[i]) : i \in 1..Len(spawned)}
                       \cup {Expected(slot) : slot \in CommandSlots} :
                Cardinality({i \in 1..Len(spawned) : Invocation(spawned[i]) = x})
                    = Cardinality({slot \in CommandSlots : Expected(slot) = x}))
    /\ [][pc = "dispatch" =>
             (config' = config /\ staged_files' = staged_files)]_vars

\* C18, its case: exec has returned Ok after the second item spawned before
\* the first, and two of the three processes are the same invocation.
C18_SameInvocationTwice ==
    /\ pc = "returned" /\ result = "Ok"
    /\ Len(spawned) = 3
    /\ spawned[1].rule = 2
    /\ spawned[2].rule = 1
    /\ Invocation(spawned[1]) = Invocation(spawned[3])

\* The positions of a command string where a token begins: a character that
\* is no whitespace, at the front or after whitespace.
TokenStarts(s) ==
    {i \in 1..Len(s) : s[i] \notin Whitespace /\ (i = 1 \/ s[i - 1] \in Whitespace)}

\* The k-th of them.
TokenStart(s, k) ==
    CHOOSE i \in TokenStarts(s) : Cardinality({j \in TokenStarts(s) : j <= i}) = k

\* The command strings with no token.
Blank(s) == \A i \in 1..Len(s) : s[i] \in Whitespace

\* C19: every spawned process has, in front of its path arguments, the
\* tokens of its command string in order, the executable being the first:
\* as many as the string has token starts, at least one, each non-empty and
\* free of whitespace, the k-th being the characters from the k-th token
\* start up to the next whitespace or the end.  A command string without a
\* token is never spawned, nor is any command after it in its item; the
\* item's task does not end normally, exec does not return Ok, and a task
\* that panicked ends the run in a panic, with exit code 101.
C19_TokensOfTheCommand ==
    /\ \A i \in 1..Len(spawned) :
          LET s == spawned[i].command
              argv == spawned[i].argv
              n == Cardinality(TokenStarts(s))
          IN  /\ n >= 1
              /\ Len(argv) = n + Len(Accepted(spawned[i].rule))
              /\ \A k \in 1..n :
                    LET from == TokenStart(s, k)
                        to == from + Len(argv[k]) - 1
                    IN  /\ argv[k] # <<>>
                        /\ \A c \in Range(argv[k]) : c \notin Whitespace
                        /\ to <= Len(s)
                        /\ argv[k] = SubSeq(s, from, to)
                        /\ to = Len(s) \/ s[to + 1] \in Whitespace
    /\ \A r \in Rules : \A k \in 1..Len(config[r].commands) :
          Blank(config[r].commands[k]) =>
              /\ Len(SpawnsOf(r)) < k
              /\ task[r].next <= k
              /\ task[r].st # "done"
              /\ result # "Ok"
    /\ \A r \in Rules :
          (Terminal /\ task[r].st = "panicked") =>
              (pc = "panicked" /\ result = "PanicInTask" /\ exitCode = "101")

\* C19, its case: the command "fmt<TAB>-q", two tokens with a tab between,
\* has been spawned.
C19_TabBetweenTokens ==
    /\ Len(spawned) = 1
    /\ spawned[1].command = <<"f", "m", "t", "\t", "-", "q">>
    /\ SubSeq(spawned[1].argv, 1, 2) = << <<"f", "m", "t">>, <<"-", "q">> >>

=============================================================================
